---- MODULE Spec2Model ----
(***************************************************************************)
(* Renkforce AOK-5055 weather-station decoder                              *)
(* (src/devices/renkforce_aok5055.c).                                      *)
(*                                                                         *)
(* A capture is row 0 of a bitbuffer: a sequence of bits.  One decode is   *)
(* one call of renkforce_aok5055_callback on the caller's bitbuffer; the   *)
(* call inverts the buffer in place, searches the preamble, checks the     *)
(* length, extracts 4 frames of 12 bytes, compares them and emits one      *)
(* record.  Bits are 0/1, bit offsets are 0-based as in the C code         *)
(* (offset o is element o+1 of the TLA+ sequence), byte arrays are         *)
(* functions on 0..size-1.                                                 *)
(*                                                                         *)
(* Fixed-point fields of the emitted record: temperature is in tenths of   *)
(* a degree (temperature_c / 10.0), wind_degrees in tenths of a degree     *)
(* (wind_direction * 22.5), rain_volume in hundredths of a millimetre      *)
(* (rain_steps * 0.75).                                                    *)
(***************************************************************************)
EXTENDS Integers, Sequences, FiniteSets

VARIABLES
    bitbuffer,   \* row 0 of the caller's bitbuffer_t (mutated by the decoder)
    capture,     \* the capture as first received, before any edit or decode
    frameStart,  \* bit offset at which the transmitter's first frame starts
    edit,        \* the one edit applied to the capture before decoding
    history      \* one entry per decode call made on the buffer, in order

vars == <<bitbuffer, capture, frameStart, edit, history>>

----------------------------------------------------------------------------
(* Bounds of the model.                                                    *)

MaxCalls == 2        \* decode calls made on one buffer
NumPayloads == 2     \* sensor frames drawn from FrameTable
MaxExtra == 2        \* junk bits appended after the last repeat

----------------------------------------------------------------------------
(* Program constants.                                                      *)

AOK5055_MESSAGE_LEN == 12
AOK5055_MESSAGE_PREAMBLELEN == 3 * 8
AOK5055_MINREPEATS == 4
AOK5055_MILLIMETER_PER_STEP == 75      \* 0.75 mm, in hundredths

preamble == <<170, 165, 152>>          \* 0xaa 0xa5 0x98

direction_lookup ==
    [i \in 0..15 |->
        <<"  N", "NNO", " NO", "ONO", "  O", "OSO", " SO", "SSO",
          "  S", "SSW", "SWW", " SW", "  W", "WNW", " NW", "NNW">>[i + 1]]

(* chars are their ASCII codes: "0123456789ABCDEF", ':' is 58, NUL is 0 *)
hex == [i \in 0..15 |->
        <<48, 49, 50, 51, 52, 53, 54, 55, 56, 57, 65, 66, 67, 68, 69, 70>>[i + 1]]

Colon == 58
NUL == 0
Uninit == -1                           \* an array element never written

BYTES_SIZE == AOK5055_MESSAGE_LEN * AOK5055_MINREPEATS + 1
RAW_SIZE == AOK5055_MESSAGE_LEN * 3 + 1

(* Distance in bytes from raw[0] to bytes[0] in builds of the callback:    *)
(* 48 when raw is padded to 48 bytes and bytes lies behind the padding,    *)
(* 37 when bytes lies directly behind raw.                                 *)
Layouts == {37, 48}

----------------------------------------------------------------------------
(* C integer operators on unsigned 8-bit operands.                         *)

RECURSIVE BitAnd(_, _)
BitAnd(a, b) ==
    IF a = 0 \/ b = 0 THEN 0
    ELSE (a % 2) * (b % 2) + 2 * BitAnd(a \div 2, b \div 2)

RECURSIVE BitOr(_, _)
BitOr(a, b) ==
    IF a = 0 THEN b
    ELSE IF b = 0 THEN a
    ELSE (IF a % 2 = 1 \/ b % 2 = 1 THEN 1 ELSE 0)
         + 2 * BitOr(a \div 2, b \div 2)

Shl(a, k) == a * (2 ^ k)
Shr(a, k) == a \div (2 ^ k)

----------------------------------------------------------------------------
(* bitbuffer.c: the three bitbuffer operations the decoder calls.          *)

bitbuffer_invert(bb) == [i \in 1..Len(bb) |-> 1 - bb[i]]

(* bit k (0-based, most significant first) of a byte string *)
PatternBit(pattern, k) == Shr(pattern[(k \div 8) + 1], 7 - (k % 8)) % 2

MatchesAt(bb, pos, pbits, pattern_bits_len) ==
    \A k \in 0..(pattern_bits_len - 1) : bb[pos + k + 1] = pbits[k]

(* first offset >= start at which the pattern occurs, else the row length *)
bitbuffer_search(bb, start, pattern, pattern_bits_len) ==
    LET pbits == [k \in 0..(pattern_bits_len - 1) |-> PatternBit(pattern, k)]
        hits == {p \in start..(Len(bb) - pattern_bits_len) :
                    MatchesAt(bb, p, pbits, pattern_bits_len)}
    IN  IF hits = {} THEN Len(bb)
        ELSE CHOOSE p \in hits : \A q \in hits : p <= q

(* the 8 bits at bit offset pos, most significant first *)
ByteAtBit(bb, pos) ==
    bb[pos + 1] * 128 + bb[pos + 2] * 64 + bb[pos + 3] * 32 + bb[pos + 4] * 16
    + bb[pos + 5] * 8 + bb[pos + 6] * 4 + bb[pos + 7] * 2 + bb[pos + 8]

(* len bits (a multiple of 8 here) from bit offset pos, packed into bytes *)
bitbuffer_extract_bytes(bb, pos, len) ==
    [j \in 0..((len \div 8) - 1) |-> ByteAtBit(bb, pos + 8 * j)]

----------------------------------------------------------------------------
(* bytes_tohex: the writes it performs, in order, as <<index, char>> with  *)
(* index relative to out.  k is pin - in; pout - out is 3 * k.             *)

RECURSIVE tohex_loop(_, _, _, _, _)
tohex_loop(in, insz, outsz, k, writes) ==
    IF k < insz
    THEN LET w == writes \o << <<3 * k,     hex[BitAnd(Shr(in[k], 4), 15)]>>,
                               <<3 * k + 1, hex[BitAnd(in[k], 15)]>>,
                               <<3 * k + 2, Colon>> >>
         IN  IF 3 * k + 3 > outsz
             THEN [writes |-> w, pout |-> 3 * k]
             ELSE tohex_loop(in, insz, outsz, k + 1, w)
    ELSE [writes |-> writes, pout |-> 3 * k]

bytes_tohex(in, insz, outsz) ==
    LET r == tohex_loop(in, insz, outsz, 0, <<>>)
    IN  Append(r.writes, <<r.pout - 1, NUL>>)

(* an array after a sequence of writes; writes outside its index set miss *)
RECURSIVE Store(_, _, _)
Store(arr, writes, shift) ==
    IF writes = <<>> THEN arr
    ELSE LET i == Head(writes)[1] - shift
         IN  Store(IF i \in DOMAIN arr
                   THEN [arr EXCEPT ![i] = Head(writes)[2]]
                   ELSE arr,
                   Tail(writes), shift)

(* the C string held in a char array: the chars before the first NUL *)
RECURSIVE CString(_, _)
CString(arr, i) ==
    IF i \notin DOMAIN arr \/ arr[i] = NUL THEN <<>>
    ELSE <<arr[i]>> \o CString(arr, i + 1)

----------------------------------------------------------------------------
(* renkforce_aok5055_callback.                                             *)

(* Variants of the comparison loop with one loop bound changed. *)
RepeatsAgree_fewer_repeats(bytes) ==
    \A position \in 0..(AOK5055_MESSAGE_LEN - 2) :
        \A repeat \in 1..(AOK5055_MINREPEATS - 2) :
            bytes[position] = bytes[position + (AOK5055_MESSAGE_LEN * repeat)]

RepeatsAgree_fewer_bytes(bytes) ==
    \A position \in 0..(AOK5055_MESSAGE_LEN - 3) :
        \A repeat \in 1..(AOK5055_MINREPEATS - 1) :
            bytes[position] = bytes[position + (AOK5055_MESSAGE_LEN * repeat)]

RepeatsAgree_all_bytes(bytes) ==
    \A position \in 0..(AOK5055_MESSAGE_LEN - 1) :
        \A repeat \in 1..(AOK5055_MINREPEATS - 1) :
            bytes[position] = bytes[position + (AOK5055_MESSAGE_LEN * repeat)]

(* lines 111-117: frames 1..3 equal frame 0 on bytes 0..10 *)
RepeatsAgree(bytes) ==
    \A position \in 0..(AOK5055_MESSAGE_LEN - 2) :
        \A repeat \in 1..(AOK5055_MINREPEATS - 1) :
            bytes[position] = bytes[position + (AOK5055_MESSAGE_LEN * repeat)]

(* Variant of the length check with >= for >. *)
RowTooShort_ge(bitpos, bits_per_row) ==
    bitpos + AOK5055_MINREPEATS * AOK5055_MESSAGE_LEN * 8 >= bits_per_row

(* line 99: the row is long enough to contain the repeats *)
RowTooShort(bitpos, bits_per_row) ==
    bitpos + AOK5055_MINREPEATS * AOK5055_MESSAGE_LEN * 8 > bits_per_row

(* Variant of the field decode that forgets the mask on bytes[4]. *)
MakeData_unmasked(bytes, raw) ==
    LET humidity == bytes[6]
        temperature_c == BitOr(Shl(bytes[4], 8), bytes[5])
        rain_steps == BitOr(Shl(bytes[7], 4), Shr(bytes[8], 4))
        wind_speed == BitOr(Shl(BitAnd(bytes[8], 15), 8), Shr(bytes[9], 4))
        wind_direction == BitAnd(bytes[9], 15)
        battery == (BitAnd(bytes[4], 240) = 240)
    IN  [model          |-> "Renkforce AOK5055",
         temperature    |-> temperature_c,
         humidity       |-> humidity,
         wind_direction |-> direction_lookup[wind_direction],
         wind_degrees   |-> wind_direction * 225,
         wind_speed     |-> wind_speed,
         rain_volume    |-> rain_steps * AOK5055_MILLIMETER_PER_STEP,
         battery        |-> IF battery THEN "LOW" ELSE "OK",
         raw            |-> CString(raw, 0)]

(* lines 121-141: the record handed to decoder_output_data *)
MakeData(bytes, raw) ==
    LET humidity == bytes[6]
        temperature_c == BitOr(Shl(BitAnd(bytes[4], 15), 8), bytes[5])
        rain_steps == BitOr(Shl(bytes[7], 4), Shr(bytes[8], 4))
        wind_speed == BitOr(Shl(BitAnd(bytes[8], 15), 8), Shr(bytes[9], 4))
        wind_direction == BitAnd(bytes[9], 15)
        battery == (BitAnd(bytes[4], 240) = 240)
    IN  [model          |-> "Renkforce AOK5055",
         temperature    |-> temperature_c,
         humidity       |-> humidity,
         wind_direction |-> direction_lookup[wind_direction],
         wind_degrees   |-> wind_direction * 225,
         wind_speed     |-> wind_speed,
         rain_volume    |-> rain_steps * AOK5055_MILLIMETER_PER_STEP,
         battery        |-> IF battery THEN "LOW" ELSE "OK",
         raw            |-> CString(raw, 0)]

(* Variant of the callback without the polarity flip. *)
InvertInPlace_none(bitbuffer0) == bitbuffer0

(* line 89: the polarity flip, done in place on the caller's buffer *)
InvertInPlace(bitbuffer0) == bitbuffer_invert(bitbuffer0)

(* Variant of the search that goes on to a later occurrence of the         *)
(* preamble when the frames at an earlier one are short or disagree.       *)
FindPreamble_resume(bb) ==
    LET pbits == [k \in 0..(AOK5055_MESSAGE_PREAMBLELEN - 1) |->
                    PatternBit(preamble, k)]
        occ == {p \in 0..(Len(bb) - AOK5055_MESSAGE_PREAMBLELEN) :
                    MatchesAt(bb, p, pbits, AOK5055_MESSAGE_PREAMBLELEN)}
        good == {p \in occ :
                    /\ p + 384 <= Len(bb)
                    /\ \A r \in 1..3 : \A i \in 0..87 :
                          bb[p + i + 1] = bb[p + 96 * r + i + 1]}
        least(S) == CHOOSE p \in S : \A q \in S : p <= q
    IN  IF good # {} THEN least(good)
        ELSE IF occ # {} THEN least(occ)
        ELSE Len(bb)

(* line 92: where the frames are taken from *)
FindPreamble(bb) ==
    bitbuffer_search(bb, 0, preamble, AOK5055_MESSAGE_PREAMBLELEN)

(* line 93: the search's answer for "not found" *)
NotFound(bitpos, bits_per_row) == bitpos = bits_per_row

(* Lines 89-117: the polarity flip, the search, the length check, the      *)
(* extraction and the comparison of the repeats.  exit names the return    *)
(* statement taken ("" when none is), bb is the buffer the call leaves     *)
(* behind, bytes the local array (empty before the extraction).            *)
callback_validate(bitbuffer0) ==
    LET bb == InvertInPlace(bitbuffer0)
        bits_per_row == Len(bb)
        bitpos == FindPreamble(bb)
    IN  IF NotFound(bitpos, bits_per_row)
        THEN [exit |-> "PreambleNotFound", bb |-> bb, bitpos |-> bitpos,
              bytes |-> <<>>]
        ELSE IF RowTooShort(bitpos, bits_per_row)
        THEN [exit |-> "InsufficientData", bb |-> bb, bitpos |-> bitpos,
              bytes |-> <<>>]
        ELSE
        LET extracted == bitbuffer_extract_bytes(bb, bitpos,
                            AOK5055_MESSAGE_LEN * 8 * AOK5055_MINREPEATS)
            bytes == [i \in 0..(BYTES_SIZE - 1) |->
                        IF i \in DOMAIN extracted THEN extracted[i] ELSE Uninit]
        IN  [exit |-> IF RepeatsAgree(bytes) THEN "" ELSE "RepeatMismatch",
             bb |-> bb, bitpos |-> bitpos, bytes |-> bytes]

(* Lines 119-144, entered when no return was taken: the hex string, the    *)
(* fields, the record.  off is the build's distance from raw to bytes: a   *)
(* write of bytes_tohex past the end of raw lands in bytes or in padding.  *)
(* writes are the indices and chars bytes_tohex stored relative to raw,    *)
(* output the records given to decoder_output_data.                        *)
callback_emit(v, off) ==
    IF v.exit # ""
    THEN [ret |-> 0, exit |-> v.exit, bb |-> v.bb, bitpos |-> v.bitpos,
          writes |-> <<>>, output |-> <<>>, bytes |-> v.bytes]
    ELSE
    LET writes == bytes_tohex(v.bytes, 18, 37)
        raw == Store([i \in 0..(RAW_SIZE - 1) |-> Uninit], writes, 0)
        bytes2 == Store(v.bytes, writes, off)
    IN  [ret |-> 1, exit |-> "Decoded", bb |-> v.bb, bitpos |-> v.bitpos,
         writes |-> writes, output |-> <<MakeData(bytes2, raw)>>,
         bytes |-> bytes2]

(* one call on row 0 of the buffer *)
renkforce_aok5055_callback(bitbuffer0, off) ==
    callback_emit(callback_validate(bitbuffer0), off)

----------------------------------------------------------------------------
(* The captures fed to the decoder.  Frames and lead-ins are given as the  *)
(* transmitter's bits (what the decoder sees after its inversion); the     *)
(* receiver delivers their complement.                                     *)

Complement(bits) == [i \in 1..Len(bits) |-> 1 - bits[i]]

BitsOfByte(v) == [k \in 1..8 |-> (v \div (2 ^ (8 - k))) % 2]

RECURSIVE BitsOfBytes(_)
BitsOfBytes(bs) ==
    IF bs = <<>> THEN <<>> ELSE BitsOfByte(Head(bs)) \o BitsOfBytes(Tail(bs))

(* 12-byte sensor frames; the first is the example of the file header *)
FrameTable ==
    << <<170, 165, 152,  15,   0, 144,  83,   5, 224,  45, 163, 128>>,
       <<170, 165, 152,  60, 241,  44,  64, 255, 247, 180,  90,   0>>,
       <<170, 165, 152, 119,  15, 255, 100,   0,  15, 255,  17, 127>>,
       <<170, 165, 152,   0, 224,   0,   0, 128,  16,  10,   0, 255>>,
       <<170, 165, 152, 170, 165, 152,  33,  18,  52,  86, 120, 154>>,
       <<170, 165, 152, 195, 240,   1,  50,   1,   1,  27,  34,  51>> >>

(* what precedes the first frame: nothing, noise of a length that is not   *)
(* a multiple of 8, a stray preamble followed by such noise                *)
PrefixTable ==
    << <<>>,
       <<1, 0, 1, 1, 0>>,
       BitsOfBytes(<<170, 165, 152>>) \o <<0, 1, 1, 0, 1>> >>

(* last bytes given to the four frames: mutually distinct values *)
PauseTable ==
    << <<1, 2, 3, 4>>, <<255, 0, 127, 129>>, <<128, 64, 32, 16>> >>

ByteSamples == (0..16) \cup {90, 165, 240, 255}

JunkBits == <<1, 1, 0, 1, 0, 0, 1, 1>>

FRAME_BITS == AOK5055_MESSAGE_LEN * 8

Transmission(f, x) ==
    LET fr == BitsOfBytes(FrameTable[f])
    IN  PrefixTable[x] \o fr \o fr \o fr \o fr

(* bits with the 8 bits at offset pos replaced by the byte v *)
WithByte(bits, pos, v) ==
    [i \in 1..Len(bits) |->
        IF i - 1 \in pos..(pos + 7) THEN BitsOfByte(v)[i - pos] ELSE bits[i]]

NoEdit == [kind |-> "none", r |-> 0, p |-> 0, v |-> 0]

Init ==
    /\ \E f \in 1..NumPayloads, x \in 1..Len(PrefixTable) :
         /\ capture = Complement(Transmission(f, x))
         /\ frameStart = Len(PrefixTable[x])
    /\ bitbuffer = capture
    /\ edit = NoEdit
    /\ history = <<>>

Pristine == edit = NoEdit /\ history = <<>>

(* the receiver got one bit wrong *)
FlipBit(r, p, b) ==
    /\ Pristine
    /\ LET pos == frameStart + FRAME_BITS * r + 8 * p + b
       IN  bitbuffer' = [bitbuffer EXCEPT ![pos + 1] = 1 - @]
    /\ edit' = [kind |-> "flip", r |-> r, p |-> p, v |-> b]
    /\ UNCHANGED <<capture, frameStart, history>>

(* the four frames end in four different pause bytes *)
SetLastBytes(s) ==
    /\ Pristine
    /\ LET last(r) == frameStart + FRAME_BITS * r + 8 * (AOK5055_MESSAGE_LEN - 1)
           t == Complement(bitbuffer)
           t0 == WithByte(t, last(0), PauseTable[s][1])
           t1 == WithByte(t0, last(1), PauseTable[s][2])
           t2 == WithByte(t1, last(2), PauseTable[s][3])
           t3 == WithByte(t2, last(3), PauseTable[s][4])
       IN  bitbuffer' = Complement(t3)
    /\ edit' = [kind |-> "pause", r |-> 0, p |-> AOK5055_MESSAGE_LEN - 1, v |-> s]
    /\ UNCHANGED <<capture, frameStart, history>>

(* the sensor sent another value in byte p of every frame *)
Retune(p, v) ==
    /\ Pristine
    /\ LET at(r) == frameStart + FRAME_BITS * r + 8 * p
           t == Complement(bitbuffer)
           t0 == WithByte(t, at(0), v)
           t1 == WithByte(t0, at(1), v)
           t2 == WithByte(t1, at(2), v)
           t3 == WithByte(t2, at(3), v)
       IN  bitbuffer' = Complement(t3)
    /\ edit' = [kind |-> "retune", r |-> 0, p |-> p, v |-> v]
    /\ UNCHANGED <<capture, frameStart, history>>

(* the recording window ended early: only the first n bits arrived *)
Truncate(n) ==
    /\ Pristine
    /\ n < Len(bitbuffer)
    /\ bitbuffer' = SubSeq(bitbuffer, 1, n)
    /\ edit' = [kind |-> "truncate", r |-> 0, p |-> 0, v |-> n]
    /\ UNCHANGED <<capture, frameStart, history>>

(* k bits of noise follow the last repeat *)
Extend(k) ==
    /\ Pristine
    /\ bitbuffer' = bitbuffer \o Complement(SubSeq(JunkBits, 1, k))
    /\ edit' = [kind |-> "extend", r |-> 0, p |-> 0, v |-> k]
    /\ UNCHANGED <<capture, frameStart, history>>

(* the receiver delivers the opposite polarity *)
SwapPolarity ==
    /\ Pristine
    /\ bitbuffer' = Complement(bitbuffer)
    /\ edit' = [kind |-> "swap", r |-> 0, p |-> 0, v |-> 0]
    /\ UNCHANGED <<capture, frameStart, history>>

(* what a call leaves to look at: everything but the buffer *)
Entry(input, res) ==
    [input |-> input, ret |-> res.ret, exit |-> res.exit, bitpos |-> res.bitpos,
     writes |-> res.writes, bytes |-> res.bytes, output |-> res.output]

(* one call of the decoder on the buffer, in a build of either layout *)
Decode ==
    /\ Len(history) < MaxCalls
    /\ \E v \in {callback_validate(bitbuffer)} : \E off \in Layouts :
         \E res \in {callback_emit(v, off)} :
             /\ bitbuffer' = res.bb
             /\ history' = Append(history, Entry(bitbuffer, res))
    /\ UNCHANGED <<capture, frameStart, edit>>

TruncLens ==
    {0, 23, frameStart + 23, frameStart + 24, frameStart + 3 * FRAME_BITS,
     frameStart + 4 * FRAME_BITS - 1}

(* captures with a wrong bit, cut, extended or of the other polarity *)
Next ==
    \/ \E r \in 0..(AOK5055_MINREPEATS - 1), p \in 0..(AOK5055_MESSAGE_LEN - 1),
          b \in 0..7 : FlipBit(r, p, b)
    \/ \E s \in 1..Len(PauseTable) : SetLastBytes(s)
    \/ \E n \in TruncLens : Truncate(n)
    \/ \E k \in 1..MaxExtra : Extend(k)
    \/ SwapPolarity
    \/ Decode

Spec == Init /\ [][Next]_vars

(* captures with every bit as sent, cut, extended or of the other polarity *)
NextWindow ==
    \/ \E s \in 1..Len(PauseTable) : SetLastBytes(s)
    \/ \E n \in TruncLens : Truncate(n)
    \/ \E k \in 1..MaxExtra : Extend(k)
    \/ SwapPolarity
    \/ Decode

SpecWindow == Init /\ [][NextWindow]_vars

(* intact captures of many sensor values *)
NextFields ==
    \/ \E p \in 4..9, v \in ByteSamples : Retune(p, v)
    \/ Decode

SpecFields == Init /\ [][NextFields]_vars

----------------------------------------------------------------------------
(* Properties.  They are stated on the bits of the row, not on the         *)
(* decoder's byte arrays: Seen(h) is the row as the decoder of call h      *)
(* reads it (the input, inverted), a frame is 96 bits, a nibble 4 bits.    *)

PreambleBits ==
    <<1, 0, 1, 0, 1, 0, 1, 0,  1, 0, 1, 0, 0, 1, 0, 1,  1, 0, 0, 1, 1, 0, 0, 0>>

Seen(h) == [i \in 1..Len(h.input) |-> 1 - h.input[i]]

PreambleAt(bits, o) ==
    /\ o + 24 <= Len(bits)
    /\ \A k \in 1..24 : bits[o + k] = PreambleBits[k]

Occurrences(bits) == {o \in 0..(Len(bits) - 24) : PreambleAt(bits, o)}

Earliest(S) == CHOOSE o \in S : \A q \in S : o <= q

(* the earliest preamble of a row, -1 when it holds none *)
FirstPreamble(bits) ==
    IF Occurrences(bits) = {} THEN -1 ELSE Earliest(Occurrences(bits))

(* bytes 0..10 of the frames at o+96, o+192, o+288 equal those of the frame at o *)
FramesAgreeAt(bits, o) ==
    \A r \in 1..3 : \A i \in 1..88 : bits[o + i] = bits[o + 96 * r + i]

(* four agreeing frames follow the earliest preamble and fit in the row *)
ValidRow(bits) ==
    \E o \in {FirstPreamble(bits)} :
        o >= 0 /\ o + 384 <= Len(bits) /\ FramesAgreeAt(bits, o)

ValidCapture ==
    \E row \in {[i \in 1..Len(capture) |-> 1 - capture[i]]} : ValidRow(row)

NibbleAt(bits, o, k) ==
    8 * bits[o + 4 * k + 1] + 4 * bits[o + 4 * k + 2]
    + 2 * bits[o + 4 * k + 3] + bits[o + 4 * k + 4]

(* the call just made; every earlier call was the last one in the state    *)
(* it was made in                                                          *)
Calls == IF history = <<>> THEN {} ELSE {Len(history)}

Exits == {"PreambleNotFound", "InsufficientData", "RepeatMismatch", "Decoded"}

(* C1: every call ends in exactly one of PreambleNotFound,                 *)
(* InsufficientData, RepeatMismatch, Decoded; it returns 1 and emits       *)
(* exactly one record in Decoded, returns 0 and emits nothing otherwise;   *)
(* a record is emitted only if four frames that agree on bytes 0..10       *)
(* follow a preamble of the row.                                           *)
C1_OneOutcomePerCall ==
    \A c \in Calls : \A h \in {history[c]} :
        /\ h.exit \in Exits
        /\ (h.exit = "Decoded") <=> (h.ret = 1)
        /\ h.exit = "Decoded" => Len(h.output) = 1
        /\ h.exit # "Decoded" => h.ret = 0 /\ h.output = <<>>
        /\ h.output # <<>> =>
              \E row \in {Seen(h)} : \E o \in Occurrences(row) :
                  o + 384 <= Len(row) /\ FramesAgreeAt(row, o)

C1_Witness ==
    /\ Len(history) = 2
    /\ history[1].exit = "Decoded" /\ Len(history[1].output) = 1
    /\ history[2].exit = "PreambleNotFound" /\ history[2].output = <<>>

(* C2: with the preamble found at o and o + 384 <= row length, the call    *)
(* decodes if and only if frames 1..3 equal frame 0 on bytes 0..10, and    *)
(* ends in RepeatMismatch otherwise; one flipped bit in bytes 0..10 of     *)
(* repeat 1, 2 or 3 of a valid capture gives RepeatMismatch, no record.    *)
C2_ConsensusDecides ==
    /\ \A c \in Calls : \A h \in {history[c]} : \A row \in {Seen(h)} :
        \A o \in {FirstPreamble(row)} :
          (o >= 0 /\ o + 384 <= Len(row)) =>
                 /\ h.exit \in {"Decoded", "RepeatMismatch"}
                 /\ (h.exit = "Decoded") <=> FramesAgreeAt(row, o)
    /\ (/\ history # <<>>
        /\ edit.kind = "flip" /\ edit.r \in 1..3 /\ edit.p \in 0..10
        /\ ValidCapture)
        => history[1].exit = "RepeatMismatch" /\ history[1].output = <<>>

C2_Witness ==
    /\ history # <<>>
    /\ ValidCapture
    /\ edit.kind = "flip" /\ edit.r = 2 /\ edit.p = 3
    /\ history[1].exit = "RepeatMismatch"

(* the record the call emits for the capture as first received *)
ReadingOfCapture == renkforce_aok5055_callback(capture, 48).output

(* C3 as claimed: distinct last bytes in the four frames of a valid        *)
(* capture leave the decode successful and the whole record, raw           *)
(* included, equal to the record of the unmodified capture.                *)
C3_SameReadingWithRaw ==
    (history # <<>> /\ ValidCapture /\ edit.kind = "pause") =>
        /\ history[1].exit = "Decoded"
        /\ history[1].output = ReadingOfCapture

HexPair(v) == <<hex[v \div 16], hex[v % 16]>>

(* C3 amended: distinct last bytes in the four frames of a valid capture   *)
(* leave the decode successful and every field but raw equal to that of    *)
(* the unmodified capture; raw keeps its first 11 bytes and ends in the    *)
(* two hex digits of the new last byte of frame 0.                         *)
C3_SameReadingButRaw ==
    (history # <<>> /\ ValidCapture /\ edit.kind = "pause") =>
        /\ history[1].exit = "Decoded"
        /\ Len(history[1].output) = 1
        /\ LET got == history[1].output[1]
               was == ReadingOfCapture[1]
           IN  /\ [got EXCEPT !.raw = <<>>] = [was EXCEPT !.raw = <<>>]
               /\ Len(got.raw) = 35
               /\ SubSeq(got.raw, 1, 33) = SubSeq(was.raw, 1, 33)
               /\ SubSeq(got.raw, 34, 35) = HexPair(PauseTable[edit.v][1])

C3_Witness ==
    /\ history # <<>> /\ ValidCapture /\ edit.kind = "pause"
    /\ history[1].exit = "Decoded"
    /\ history[1].output # ReadingOfCapture

C5_LengthCheck ==
    /\ \A c \in Calls : \A h \in {history[c]} :
        \A o \in {FirstPreamble(Seen(h))} :
              /\ o >= 0 =>
                    ((h.exit = "InsufficientData") <=> (o + 384 > Len(h.input)))
              /\ h.exit = "InsufficientData" =>
                    h.ret = 0 /\ h.output = <<>> /\ h.bytes = <<>> /\ o >= 0
    /\ (/\ history # <<>>
        /\ ValidCapture
        /\ edit.kind = "truncate" /\ edit.v = frameStart + 3 * 96)
        => history[1].exit = "InsufficientData"

C5_Witness ==
    /\ history # <<>>
    /\ ValidCapture
    /\ edit.kind = "truncate" /\ edit.v = frameStart + 3 * 96
    /\ history[1].exit = "InsufficientData"

(* a row of exactly o + 384 bits passes the length check *)
C5_ExactFitReached ==
    \E c \in Calls :
        /\ FirstPreamble(Seen(history[c])) >= 0
        /\ FirstPreamble(Seen(history[c])) + 384 = Len(history[c].input)
        /\ history[c].exit = "Decoded"

(* C6: a row whose inverted form holds no occurrence of the 24 preamble    *)
(* bits (rows shorter than 24 bits included) ends in PreambleNotFound:     *)
(* returns 0, emits nothing, also when the bits as delivered do hold it.   *)
C6_NoPreambleNoDecode ==
    \A c \in Calls : \A h \in {history[c]} :
        Occurrences(Seen(h)) = {} =>
            h.exit = "PreambleNotFound" /\ h.ret = 0 /\ h.output = <<>>

C6_Witness ==
    \E c \in Calls :
        /\ Occurrences(history[c].input) # {}
        /\ Occurrences(Seen(history[c])) = {}
        /\ history[c].exit = "PreambleNotFound"

C6_ShortRowReached ==
    \E c \in Calls :
        Len(history[c].input) = 23 /\ history[c].exit = "PreambleNotFound"

DirectionLabels ==
    <<"  N", "NNO", " NO", "ONO", "  O", "OSO", " SO", "SSO",
      "  S", "SSW", "SWW", " SW", "  W", "WNW", " NW", "NNW">>

C8_WritesInsideRaw ==
    \A c \in Calls :
        \A w \in 1..Len(history[c].writes) :
            history[c].writes[w][1] \in 0..(RAW_SIZE - 1)

(* C9: the wind speed is the two nibbles SS of PPPPPPRRBTTTHHVVVSSDCCpp    *)
(* (nibbles 17 and 18) read as one 8-bit number, so it lies in 0..255.     *)
C9_WindSpeedTwoNibbles ==
    \A c \in Calls : \A h \in {history[c]} : \A row \in {Seen(h)} :
      \A o \in {FirstPreamble(row)} :
        LET n(k) == NibbleAt(row, o, k)
        IN  h.exit = "Decoded" =>
            /\ h.output[1].wind_speed = 16 * n(17) + n(18)
            /\ h.output[1].wind_speed \in 0..255

(* four agreeing frames that fit in the row follow a later preamble *)
LaterFramesAgree(bits) ==
    \E first \in {FirstPreamble(bits)} : \E o \in Occurrences(bits) :
        /\ o > first
        /\ o + 384 <= Len(bits)
        /\ FramesAgreeAt(bits, o)

(* C10: only the frames at the earliest preamble of the inverted row are   *)
(* validated: when they do not fit or disagree the call emits nothing,     *)
(* also when a later preamble is followed by four agreeing frames; a       *)
(* record that is emitted renders the frame at the earliest preamble.      *)
C10_FirstMatchOnly ==
    \A c \in Calls : \A h \in {history[c]} : \A row \in {Seen(h)} :
      \A o \in {FirstPreamble(row)} :
        o >= 0 =>
            /\ h.bitpos = o
            /\ (o + 384 > Len(row) \/ ~FramesAgreeAt(row, o))
                => h.ret = 0 /\ h.output = <<>>
            /\ h.output # <<>> =>
                  \A k \in 0..11 :
                      SubSeq(h.output[1].raw, 3 * k + 1, 3 * k + 2)
                        = <<hex[NibbleAt(row, o, 2 * k)],
                            hex[NibbleAt(row, o, 2 * k + 1)]>>

C10_Witness ==
    \E c \in Calls :
        /\ history[c].exit = "RepeatMismatch"
        /\ history[c].output = <<>>
        /\ \E row \in {Seen(history[c])} : LaterFramesAgree(row)

====
